---- MODULE Spec2Model ----
(***************************************************************************)
(* Verum Omnis: the IndexedDB evidence/report store (forensicService.ts)   *)
(* and the local contradiction engine.                                     *)
(*                                                                         *)
(* The store is three object stores (evidence, reports, meta).  Every      *)
(* exported operation opens IndexedDB transactions; a transaction is       *)
(* atomic and isolated: its requests run only when no earlier-created live *)
(* transaction with an overlapping scope conflicts with it (two readonly   *)
(* transactions never conflict), its writes become visible at commit and   *)
(* are discarded on abort.  Each callback of the source is one action.     *)
(***************************************************************************)
EXTENDS Integers, Sequences, FiniteSets, TLC

VARIABLES
    evidenceStore,   \* object store 'evidence': id -> Evidence
    reportsStore,    \* object store 'reports' : id -> Report
    metaStore,       \* object store 'meta'    : 'reports_index' -> ReportsIndexMeta
    txq,             \* live transactions of the database, in creation order
    saves,           \* saveReport calls, in call order
    gets,            \* getAllReportsIndexed calls, in call order
    clears,          \* clearEvidenceAndReports calls, in call order
    evs,             \* saveEvidence calls, in call order
    upds,            \* updateEvidence calls, in call order
    nextUuid,        \* crypto.randomUUID(): the next fresh identifier
    failures,        \* number of storage failures injected so far
    epoch,           \* history: number of committed bulk clears
    clean,           \* history: the last clear ran with no mutation in flight and none since
    engReports,      \* runContradictionAnalysis: the reports argument
    engEvidence,     \* runContradictionAnalysis: the evidence argument
    engPass,         \* runContradictionAnalysis: the passes done (the loop variable i)
    allFoundContradictions,  \* the keyed contradictions of the passes done
    finalContradictions,     \* the returned list
    engPc,           \* "idle", "passes" or "done"
    isLoading,       \* App state: useState(false)
    isProcessingFile,    \* App state: useState(false)
    processingStatus,    \* App state: a status line or "null"
    chatItems,       \* App state: the items of the conversation
    analyses,        \* runAnalysisAndSaveReport calls, in call order
    uploads,         \* handleFileUpload calls, in call order
    ocrs,            \* triggerOcr calls, in call order
    isClearModalOpen,    \* App state: useState(false)
    clearRequests    \* handleClearData calls, in call order

vars == <<evidenceStore, reportsStore, metaStore, txq, saves, gets, clears,
          evs, upds, nextUuid, failures, epoch, clean,
          engReports, engEvidence, engPass, allFoundContradictions,
          finalContradictions, engPc,
          isLoading, isProcessingFile, processingStatus, chatItems, analyses,
          uploads, ocrs, isClearModalOpen, clearRequests>>

storeVars == <<evidenceStore, reportsStore, metaStore, txq, saves, gets, clears,
               evs, upds, nextUuid, failures, epoch, clean>>

engineVars == <<engReports, engEvidence, engPass, allFoundContradictions,
                finalContradictions, engPc>>

dbVars == <<evidenceStore, reportsStore, metaStore>>

\* what the upload, OCR and Clear Case handlers add to the App state
uploadVars == <<uploads, ocrs, isClearModalOpen, clearRequests>>

appVars == <<isLoading, isProcessingFile, processingStatus, chatItems, analyses, uploadVars>>

----------------------------------------------------------------------------
(* Bounds of the model *)

MaxSaveReport == 2
MaxGetAll == 1
MaxClear == 1
MaxSaveEvidence == 1
MaxUpdateEvidence == 1
MaxFailures == 1

----------------------------------------------------------------------------
(* Names of the object stores *)

EVIDENCE_STORE == "evidence"
REPORTS_STORE == "reports"
META_STORE == "meta"

NoId == 0

\* File contents and extracted texts the callers draw from
Contents == {"bytesA", "bytesB"}
\* ocrText?: string.  An extracted text is its sequence of tokens.
Text(tokens) == [defined |-> TRUE, tokens |-> tokens]
NoText == [defined |-> FALSE, tokens |-> <<>>]
Texts == {Text(<< [kind |-> "word"] >>)}

calculateSHA512_Salted(content) == <<"sha512", content, nextUuid>>

\* calculateSHA512: a deterministic, collision-free function of the bytes
calculateSHA512(content) == <<"sha512", content>>

----------------------------------------------------------------------------
(* Transactions *)

Txn(owner, scope, mode) == [owner |-> owner, scope |-> scope, mode |-> mode]

Conflict(t1, t2) ==
    /\ t1.scope \cap t2.scope # {}
    /\ (t1.mode = "readwrite" \/ t2.mode = "readwrite")

\* The transaction of `owner` is active: every earlier-created live
\* transaction is compatible with it.
Ready(owner) ==
    \E k \in 1..Len(txq) :
        /\ txq[k].owner = owner
        /\ \A j \in 1..(k-1) : ~Conflict(txq[j], txq[k])

Finished(owner) == SelectSeq(txq, LAMBDA t : t.owner # owner)

\* The transaction scope and mode that each operation asks for
\* the index transaction without exclusion of other index transactions
SaveReportMetaTxn_Shared(i) == Txn(<<"saveReport", i>>, {META_STORE}, "readonly")

SaveReportMetaTxn(i) == Txn(<<"saveReport", i>>, {META_STORE}, "readwrite")
SaveReportReportTxn(i) == Txn(<<"saveReport", i>>, {REPORTS_STORE}, "readwrite")
GetAllTxn(i) ==
    Txn(<<"getAll", i>>, {REPORTS_STORE, EVIDENCE_STORE, META_STORE}, "readonly")
ClearTxn(i) ==
    Txn(<<"clear", i>>, {EVIDENCE_STORE, REPORTS_STORE, META_STORE}, "readwrite")
SaveEvidenceTxn(i) == Txn(<<"saveEvidence", i>>, {EVIDENCE_STORE}, "readwrite")
UpdateEvidenceTxn(i) == Txn(<<"updateEvidence", i>>, {EVIDENCE_STORE}, "readwrite")

----------------------------------------------------------------------------
(* The index record *)

EmptyIndex == [order |-> <<>>, lastChapterIndex |-> 0]

\* getMetaRequest.result || { key: 'reports_index', order: [], lastChapterIndex: 0 }
ReadIndex(ms) == IF "reports_index" \in DOMAIN ms THEN ms["reports_index"] ELSE EmptyIndex

\* the chapter number taken without the increment
NextChapterIndex_Stale(meta) == meta.lastChapterIndex

NextChapterIndex(meta) == meta.lastChapterIndex + 1

\* the id pushed but lastChapterIndex not stored back
AdvanceIndex_NoAdvance(meta, id, nextChapterIndex) ==
    [order |-> Append(meta.order, id), lastChapterIndex |-> meta.lastChapterIndex]

\* the id pushed twice
AdvanceIndex_PushTwice(meta, id, nextChapterIndex) ==
    [order |-> Append(Append(meta.order, id), id), lastChapterIndex |-> nextChapterIndex]

\* meta.order.push(id); meta.lastChapterIndex = nextChapterIndex
AdvanceIndex(meta, id, nextChapterIndex) ==
    [order |-> Append(meta.order, id), lastChapterIndex |-> nextChapterIndex]

Range(s) == {s[k] : k \in 1..Len(s)}

----------------------------------------------------------------------------
(* getAllReportsIndexed, as a computation on what the transaction reads *)

SetToSeq(S) ==
    CHOOSE f \in [1..Cardinality(S) -> S] : \A a, b \in 1..Cardinality(S) : a # b => f[a] # f[b]

\* every stored report, whether the index lists it or not
IndexedReports_AllStored(order, reportsMap) ==
    LET ids == SetToSeq(DOMAIN reportsMap)
    IN  [k \in 1..Len(ids) |-> reportsMap[ids[k]]]

UndefinedReport == [id |-> NoId, chapterIndex |-> 0, evidenceRefs |-> <<>>]

\* the mapped list without .filter(Boolean): an absent report stays as a hole
IndexedReports_NoFilter(order, reportsMap) ==
    [k \in 1..Len(order) |->
        IF order[k] \in DOMAIN reportsMap THEN reportsMap[order[k]] ELSE UndefinedReport]

\* the listed reports, newest first
IndexedReports_NewestFirst(order, reportsMap) ==
    LET present == SelectSeq(order, LAMBDA id : id \in DOMAIN reportsMap)
    IN  [k \in 1..Len(present) |-> reportsMap[present[Len(present) + 1 - k]]]

\* order.map(id => reportsMap.get(id)).filter(Boolean)
IndexedReports(order, reportsMap) ==
    LET present == SelectSeq(order, LAMBDA id : id \in DOMAIN reportsMap)
    IN  [k \in 1..Len(present) |-> reportsMap[present[k]]]

\* the ids named by the evidenceRefs of the given reports
ReferencedIds(reports) ==
    UNION {Range(reports[k].evidenceRefs) : k \in 1..Len(reports)}

\* one entry per referenced id, an empty one for an id that is not stored
RelatedEvidence_WithHoles(allEvidence, reports) ==
    {e \in allEvidence : e.id \in ReferencedIds(reports)}
        \cup {[id |-> id] : id \in ReferencedIds(reports) \ {e.id : e \in allEvidence}}

\* allEvidence.filter(e => allEvidenceIds.has(e.id))
RelatedEvidence(allEvidence, reports) ==
    {e \in allEvidence : e.id \in ReferencedIds(reports)}

StoredEvidence(es) == {es[id] : id \in DOMAIN es}

GetAllResult(ms, rs, es) ==
    LET reports == IndexedReports(ReadIndex(ms).order, rs)
    IN  [reports |-> reports, evidence |-> RelatedEvidence(StoredEvidence(es), reports)]

----------------------------------------------------------------------------
(* Bookkeeping shared by the actions *)

SavePending(i) == saves[i].pc \in {"metaQueued", "metaPut", "reportQueued"}

MutationInFlight ==
    \/ \E i \in 1..Len(saves) : SavePending(i)
    \/ \E i \in 1..Len(clears) : clears[i].pc = "queued"
    \/ \E i \in 1..Len(evs) : evs[i].pc = "queued"
    \/ \E i \in 1..Len(upds) : upds[i].pc = "queued"

ReadInFlight ==
    \E i \in 1..Len(gets) : gets[i].pc \in {"queued", "metaRead", "reportsRead", "resolved"}

\* the Evidence objects the callers hold: the results of resolved saveEvidence calls
HeldEvidence == {evs[i].evidence : i \in {j \in 1..Len(evs) : evs[j].pc = "resolved"}}

HeldIds == {e.id : e \in HeldEvidence}

\* the evidenceRefs a caller may pass: lists without repetition of held ids
RefChoices ==
    {<<>>} \cup {<<a>> : a \in HeldIds}
           \cup {p \in HeldIds \X HeldIds : p[1] # p[2]}

CanFail == failures < MaxFailures

InitStore ==
    /\ evidenceStore = <<>>
    /\ reportsStore = <<>>
    /\ metaStore = <<>>
    /\ txq = <<>>
    /\ saves = <<>>
    /\ gets = <<>>
    /\ clears = <<>>
    /\ evs = <<>>
    /\ upds = <<>>
    /\ nextUuid = 1
    /\ failures = 0
    /\ epoch = 0
    /\ clean = "no"

InitEngineIdle ==
    /\ engReports = <<>>
    /\ engEvidence = <<>>
    /\ engPass = 0
    /\ allFoundContradictions = <<>>
    /\ finalContradictions = <<>>
    /\ engPc = "idle"

\* the App component once its initial load has finished
InitAppIdle ==
    /\ isLoading = FALSE
    /\ isProcessingFile = FALSE
    /\ processingStatus = "null"
    /\ chatItems = <<>>
    /\ analyses = <<>>
    /\ uploads = <<>>
    /\ ocrs = <<>>
    /\ isClearModalOpen = FALSE
    /\ clearRequests = <<>>

Init == InitStore /\ InitEngineIdle /\ InitAppIdle

----------------------------------------------------------------------------
(* saveEvidence *)

\* saveEvidence up to the creation of its transaction and its put request,
\* for a caller that makes at most max calls
SaveEvidenceUpTo(max, name, content) ==
    /\ Len(evs) < max
    /\ LET evidence == [id |-> nextUuid, name |-> name, blob |-> content,
                        sha512 |-> calculateSHA512(content), ocrText |-> NoText]
       IN  evs' = Append(evs, [pc |-> "queued", evidence |-> evidence])
    /\ txq' = Append(txq, SaveEvidenceTxn(Len(evs) + 1))
    /\ nextUuid' = nextUuid + 1
    /\ clean' = "no"
    /\ UNCHANGED <<engineVars, dbVars, saves, gets, clears, upds, failures, epoch>>

SaveEvidenceCall(name, content) == SaveEvidenceUpTo(MaxSaveEvidence, name, content)

\* transaction.oncomplete = () => resolve(evidence)
SaveEvidenceComplete(i) ==
    /\ evs[i].pc = "queued"
    /\ Ready(<<"saveEvidence", i>>)
    /\ evidenceStore' = (evs[i].evidence.id :> evs[i].evidence) @@ evidenceStore
    /\ evs' = [evs EXCEPT ![i].pc = "resolved"]
    /\ txq' = Finished(<<"saveEvidence", i>>)
    /\ UNCHANGED <<engineVars, reportsStore, metaStore, saves, gets, clears, upds, nextUuid,
                   failures, epoch, clean>>

\* transaction.onerror = () => reject(transaction.error)
SaveEvidenceError(i) ==
    /\ evs[i].pc = "queued"
    /\ Ready(<<"saveEvidence", i>>)
    /\ CanFail
    /\ failures' = failures + 1
    /\ evs' = [evs EXCEPT ![i].pc = "rejected"]
    /\ txq' = Finished(<<"saveEvidence", i>>)
    /\ UNCHANGED <<engineVars, dbVars, saves, gets, clears, upds, nextUuid, epoch, clean>>

----------------------------------------------------------------------------
(* updateEvidence *)

UpdatedEvidence_Rehashed(e, text) ==
    [e EXCEPT !.ocrText = text, !.sha512 = calculateSHA512("blob and text")]

\* const updatedEvidence = { ...evidence, ocrText }
UpdatedEvidence(e, text) == [e EXCEPT !.ocrText = text]

\* updateEvidence(evidence): the caller passes an Evidence object it holds,
\* with an extracted text attached
\* before is history: the record stored under the id when the call is made
UpdateEvidenceUpTo(max, e, text) ==
    /\ Len(upds) < max
    /\ upds' = Append(upds, [pc |-> "queued", evidence |-> UpdatedEvidence(e, text),
                             before |-> IF e.id \in DOMAIN evidenceStore
                                        THEN <<evidenceStore[e.id]>> ELSE <<>>])
    /\ txq' = Append(txq, UpdateEvidenceTxn(Len(upds) + 1))
    /\ clean' = "no"
    /\ UNCHANGED <<engineVars, dbVars, saves, gets, clears, evs, nextUuid, failures, epoch>>

UpdateEvidenceCall(e, text) == UpdateEvidenceUpTo(MaxUpdateEvidence, e, text)

UpdateEvidenceComplete(i) ==
    /\ upds[i].pc = "queued"
    /\ Ready(<<"updateEvidence", i>>)
    /\ evidenceStore' = (upds[i].evidence.id :> upds[i].evidence) @@ evidenceStore
    /\ upds' = [upds EXCEPT ![i].pc = "resolved"]
    /\ txq' = Finished(<<"updateEvidence", i>>)
    /\ UNCHANGED <<engineVars, reportsStore, metaStore, saves, gets, clears, evs, nextUuid,
                   failures, epoch, clean>>

UpdateEvidenceError(i) ==
    /\ upds[i].pc = "queued"
    /\ Ready(<<"updateEvidence", i>>)
    /\ CanFail
    /\ failures' = failures + 1
    /\ upds' = [upds EXCEPT ![i].pc = "rejected"]
    /\ txq' = Finished(<<"updateEvidence", i>>)
    /\ UNCHANGED <<engineVars, dbVars, saves, gets, clears, evs, nextUuid, epoch, clean>>

----------------------------------------------------------------------------
(* saveReport *)

\* saveReport up to metaStore.get('reports_index')
SaveReportCall(refs) ==
    /\ Len(saves) < MaxSaveReport
    /\ saves' = Append(saves, [pc |-> "metaQueued", evidenceRefs |-> refs,
                               id |-> NoId, chapterIndex |-> 0,
                               meta |-> EmptyIndex, readOrder |-> <<>>,
                               readSeq |-> 0, epoch |-> 0, resolvedEpoch |-> 0])
    /\ txq' = Append(txq, SaveReportMetaTxn(Len(saves) + 1))
    /\ clean' = "no"
    /\ UNCHANGED <<engineVars, dbVars, gets, clears, evs, upds, nextUuid, failures, epoch>>

\* the number of saveReport calls whose get request has succeeded
ReadsSoFar == Cardinality({j \in 1..Len(saves) : saves[j].readSeq > 0})

\* getMetaRequest.onsuccess: number the report and put the advanced index
SaveReportGetSuccess(i) ==
    /\ saves[i].pc = "metaQueued"
    /\ Ready(<<"saveReport", i>>)
    /\ LET meta == ReadIndex(metaStore)
           nextChapterIndex == NextChapterIndex(meta)
       IN  saves' = [saves EXCEPT ![i].pc = "metaPut",
                                  ![i].id = nextUuid,
                                  ![i].chapterIndex = nextChapterIndex,
                                  ![i].meta = AdvanceIndex(meta, nextUuid, nextChapterIndex),
                                  ![i].readOrder = meta.order,
                                  ![i].readSeq = ReadsSoFar + 1,
                                  ![i].epoch = epoch]
    /\ nextUuid' = nextUuid + 1
    /\ UNCHANGED <<engineVars, dbVars, txq, gets, clears, evs, upds, failures, epoch, clean>>

\* getMetaRequest.onerror = () => reject(getMetaRequest.error)
SaveReportGetError(i) ==
    /\ saves[i].pc = "metaQueued"
    /\ Ready(<<"saveReport", i>>)
    /\ CanFail
    /\ failures' = failures + 1
    /\ saves' = [saves EXCEPT ![i].pc = "rejectedGet"]
    /\ txq' = Finished(<<"saveReport", i>>)
    /\ UNCHANGED <<engineVars, dbVars, gets, clears, evs, upds, nextUuid, epoch, clean>>

\* metaTransaction.oncomplete: the index is committed, then the report
\* transaction is created with its put request
SaveReportMetaComplete(i) ==
    /\ saves[i].pc = "metaPut"
    /\ Ready(<<"saveReport", i>>)
    /\ metaStore' = ("reports_index" :> saves[i].meta) @@ metaStore
    /\ saves' = [saves EXCEPT ![i].pc = "reportQueued"]
    /\ txq' = Append(Finished(<<"saveReport", i>>), SaveReportReportTxn(i))
    /\ UNCHANGED <<engineVars, evidenceStore, reportsStore, gets, clears, evs, upds, nextUuid,
                   failures, epoch, clean>>

\* metaTransaction.onerror = () => reject(metaTransaction.error)
SaveReportMetaError(i) ==
    /\ saves[i].pc = "metaPut"
    /\ Ready(<<"saveReport", i>>)
    /\ CanFail
    /\ failures' = failures + 1
    /\ saves' = [saves EXCEPT ![i].pc = "rejectedMeta"]
    /\ txq' = Finished(<<"saveReport", i>>)
    /\ UNCHANGED <<engineVars, dbVars, gets, clears, evs, upds, nextUuid, epoch, clean>>

FullReport(s) ==
    [id |-> s.id, chapterIndex |-> s.chapterIndex, evidenceRefs |-> s.evidenceRefs]

\* reportTransaction.oncomplete = () => resolve(fullReport)
SaveReportReportComplete(i) ==
    /\ saves[i].pc = "reportQueued"
    /\ Ready(<<"saveReport", i>>)
    /\ reportsStore' = (saves[i].id :> FullReport(saves[i])) @@ reportsStore
    /\ saves' = [saves EXCEPT ![i].pc = "resolved", ![i].resolvedEpoch = epoch]
    /\ txq' = Finished(<<"saveReport", i>>)
    /\ UNCHANGED <<engineVars, evidenceStore, metaStore, gets, clears, evs, upds, nextUuid,
                   failures, epoch, clean>>

\* reportTransaction.onerror = () => reject(reportTransaction.error)
SaveReportReportError(i) ==
    /\ saves[i].pc = "reportQueued"
    /\ Ready(<<"saveReport", i>>)
    /\ CanFail
    /\ failures' = failures + 1
    /\ saves' = [saves EXCEPT ![i].pc = "rejectedReport"]
    /\ txq' = Finished(<<"saveReport", i>>)
    /\ UNCHANGED <<engineVars, dbVars, gets, clears, evs, upds, nextUuid, epoch, clean>>

----------------------------------------------------------------------------
(* getAllReportsIndexed: one readonly transaction over the three stores *)

GetAllCall ==
    /\ Len(gets) < MaxGetAll
    /\ gets' = Append(gets, [pc |-> "queued", order |-> <<>>, reports |-> <<>>,
                             evidence |-> {}, afterClear |-> (clean = "yes"),
                             snapshot |-> <<>>, midSaves |-> {}])
    /\ txq' = Append(txq, GetAllTxn(Len(gets) + 1))
    /\ UNCHANGED <<engineVars, dbVars, saves, clears, evs, upds, nextUuid, failures, epoch, clean>>

\* metaReq.onsuccess: const order = metaReq.result?.order ?? []
GetAllMetaSuccess(i) ==
    /\ gets[i].pc = "queued"
    /\ Ready(<<"getAll", i>>)
    /\ gets' = [gets EXCEPT ![i].pc = "metaRead", ![i].order = ReadIndex(metaStore).order]
    /\ UNCHANGED <<engineVars, dbVars, txq, saves, clears, evs, upds, nextUuid, failures, epoch, clean>>

\* reportsReq.onsuccess: the reports of the index, in index order
GetAllReportsSuccess(i) ==
    /\ gets[i].pc = "metaRead"
    /\ Ready(<<"getAll", i>>)
    /\ gets' = [gets EXCEPT ![i].pc = "reportsRead",
                            ![i].reports = IndexedReports(gets[i].order, reportsStore)]
    /\ UNCHANGED <<engineVars, dbVars, txq, saves, clears, evs, upds, nextUuid, failures, epoch, clean>>

\* evidenceReq.onsuccess: resolve({ reports, evidence: relatedEvidence });
\* no request is left and the transaction completes.  snapshot and
\* midSaves are history: the store at that moment and the saveReport calls
\* that have committed the index but not yet the report.
GetAllEvidenceSuccess(i) ==
    /\ gets[i].pc = "reportsRead"
    /\ Ready(<<"getAll", i>>)
    /\ gets' = [gets EXCEPT
                  ![i].pc = "resolved",
                  ![i].evidence = RelatedEvidence(StoredEvidence(evidenceStore), gets[i].reports),
                  ![i].snapshot = <<metaStore, reportsStore, evidenceStore>>,
                  ![i].midSaves = {j \in 1..Len(saves) : saves[j].pc = "reportQueued"}]
    /\ txq' = Finished(<<"getAll", i>>)
    /\ UNCHANGED <<engineVars, dbVars, saves, clears, evs, upds, nextUuid, failures, epoch, clean>>

\* metaReq.onerror / reportsReq.onerror / evidenceReq.onerror: reject
GetAllError(i) ==
    /\ gets[i].pc \in {"queued", "metaRead", "reportsRead"}
    /\ Ready(<<"getAll", i>>)
    /\ CanFail
    /\ failures' = failures + 1
    /\ gets' = [gets EXCEPT ![i].pc = "rejected"]
    /\ txq' = Finished(<<"getAll", i>>)
    /\ UNCHANGED <<engineVars, dbVars, saves, clears, evs, upds, nextUuid, epoch, clean>>

----------------------------------------------------------------------------
(* clearEvidenceAndReports: one readwrite transaction over the three stores *)

\* evidenceStore.clear()
ClearedEvidence(es) == <<>>
\* reportsStore.clear()
ClearedReports(rs) == <<>>
\* the index record left in place
ClearedMeta_Kept(ms) == ms

\* metaStore.delete('reports_index')
ClearedMeta(ms) == [k \in DOMAIN ms \ {"reports_index"} |-> ms[k]]

ClearCall ==
    /\ Len(clears) < MaxClear
    /\ clears' = Append(clears, [pc |-> "queued"])
    /\ txq' = Append(txq, ClearTxn(Len(clears) + 1))
    /\ clean' = IF MutationInFlight THEN "no" ELSE "pending"
    /\ UNCHANGED <<engineVars, dbVars, saves, gets, evs, upds, nextUuid, failures, epoch>>

\* transaction.oncomplete: the three requests are committed together; resolve()
ClearComplete(i) ==
    /\ clears[i].pc = "queued"
    /\ Ready(<<"clear", i>>)
    /\ evidenceStore' = ClearedEvidence(evidenceStore)
    /\ reportsStore' = ClearedReports(reportsStore)
    /\ metaStore' = ClearedMeta(metaStore)
    /\ clears' = [clears EXCEPT ![i].pc = "resolved"]
    /\ txq' = Finished(<<"clear", i>>)
    /\ epoch' = epoch + 1
    /\ clean' = IF clean = "pending" THEN "yes" ELSE "no"
    /\ UNCHANGED <<engineVars, saves, gets, evs, upds, nextUuid, failures>>

\* transaction.onerror = () => reject(transaction.error)
ClearError(i) ==
    /\ clears[i].pc = "queued"
    /\ Ready(<<"clear", i>>)
    /\ CanFail
    /\ failures' = failures + 1
    /\ clears' = [clears EXCEPT ![i].pc = "rejected"]
    /\ txq' = Finished(<<"clear", i>>)
    /\ clean' = "no"
    /\ UNCHANGED <<engineVars, dbVars, saves, gets, evs, upds, nextUuid, epoch>>

----------------------------------------------------------------------------
(* The store under arbitrary callers *)

FileNames == {<<"a", ".", "p">>}

Next ==
    \/ \E name \in FileNames, content \in Contents : SaveEvidenceCall(name, content) /\ UNCHANGED appVars
    \/ \E i \in 1..Len(evs) : SaveEvidenceComplete(i) /\ UNCHANGED appVars
    \/ \E i \in 1..Len(evs) : SaveEvidenceError(i) /\ UNCHANGED appVars
    \/ \E e \in HeldEvidence, text \in Texts : UpdateEvidenceCall(e, text) /\ UNCHANGED appVars
    \/ \E i \in 1..Len(upds) : UpdateEvidenceComplete(i) /\ UNCHANGED appVars
    \/ \E i \in 1..Len(upds) : UpdateEvidenceError(i) /\ UNCHANGED appVars
    \/ \E refs \in RefChoices : SaveReportCall(refs) /\ UNCHANGED appVars
    \/ \E i \in 1..Len(saves) : SaveReportGetSuccess(i) /\ UNCHANGED appVars
    \/ \E i \in 1..Len(saves) : SaveReportGetError(i) /\ UNCHANGED appVars
    \/ \E i \in 1..Len(saves) : SaveReportMetaComplete(i) /\ UNCHANGED appVars
    \/ \E i \in 1..Len(saves) : SaveReportMetaError(i) /\ UNCHANGED appVars
    \/ \E i \in 1..Len(saves) : SaveReportReportComplete(i) /\ UNCHANGED appVars
    \/ \E i \in 1..Len(saves) : SaveReportReportError(i) /\ UNCHANGED appVars
    \/ GetAllCall /\ UNCHANGED appVars
    \/ \E i \in 1..Len(gets) : GetAllMetaSuccess(i) /\ UNCHANGED appVars
    \/ \E i \in 1..Len(gets) : GetAllReportsSuccess(i) /\ UNCHANGED appVars
    \/ \E i \in 1..Len(gets) : GetAllEvidenceSuccess(i) /\ UNCHANGED appVars
    \/ \E i \in 1..Len(gets) : GetAllError(i) /\ UNCHANGED appVars
    \/ ClearCall /\ UNCHANGED appVars
    \/ \E i \in 1..Len(clears) : ClearComplete(i) /\ UNCHANGED appVars
    \/ \E i \in 1..Len(clears) : ClearError(i) /\ UNCHANGED appVars

Spec == Init /\ [][Next]_vars

\* The ledger alone: the operations that write the index and the reports
NextLedger ==
    \/ \E refs \in RefChoices : SaveReportCall(refs) /\ UNCHANGED appVars
    \/ \E i \in 1..Len(saves) : SaveReportGetSuccess(i) /\ UNCHANGED appVars
    \/ \E i \in 1..Len(saves) : SaveReportGetError(i) /\ UNCHANGED appVars
    \/ \E i \in 1..Len(saves) : SaveReportMetaComplete(i) /\ UNCHANGED appVars
    \/ \E i \in 1..Len(saves) : SaveReportMetaError(i) /\ UNCHANGED appVars
    \/ \E i \in 1..Len(saves) : SaveReportReportComplete(i) /\ UNCHANGED appVars
    \/ \E i \in 1..Len(saves) : SaveReportReportError(i) /\ UNCHANGED appVars
    \/ ClearCall /\ UNCHANGED appVars
    \/ \E i \in 1..Len(clears) : ClearComplete(i) /\ UNCHANGED appVars
    \/ \E i \in 1..Len(clears) : ClearError(i) /\ UNCHANGED appVars

SpecLedger == Init /\ [][NextLedger]_vars

----------------------------------------------------------------------------
(* Properties of the ledger *)

CurrentIndex == ReadIndex(metaStore)

Resolved(i) == saves[i].pc = "resolved"

\* the index transaction of call i committed
MetaCommitted(i) == saves[i].pc \in {"reportQueued", "resolved", "rejectedReport"}

NoSaveInFlight == \A i \in 1..Len(saves) : ~SavePending(i)

Quiescent == ~MutationInFlight /\ ~ReadInFlight

Occurrences(s, x) == Cardinality({k \in 1..Len(s) : s[k] = x})

\* C1: from the empty store, N saveReport calls that all resolved (and no
\* bulk clear) leave an index order of length N holding the N distinct ids in
\* call order, and the k-th call returned chapterIndex k.
C1_AppendsNumberedInCallOrder ==
    (epoch = 0 /\ \A i \in 1..Len(saves) : Resolved(i)) =>
        /\ Len(CurrentIndex.order) = Len(saves)
        /\ \A k \in 1..Len(saves) :
              /\ CurrentIndex.order[k] = saves[k].id
              /\ saves[k].chapterIndex = k
              /\ reportsStore[saves[k].id].chapterIndex = k
        /\ \A j, k \in 1..Len(saves) : j # k => saves[j].id # saves[k].id

C1_Witness ==
    /\ epoch = 0
    /\ Len(saves) = MaxSaveReport
    /\ \A i \in 1..Len(saves) : Resolved(i)

\* C2: a saveReport whose report write failed after the index write leaves
\* the store as before the call: its id is not in order, lastChapterIndex is
\* not advanced to its chapter, and no id of order lacks its report.
C2_ReportAndIndexTogether ==
    \A i \in 1..Len(saves) :
        (saves[i].pc = "rejectedReport" /\ saves[i].epoch = epoch) =>
            /\ saves[i].id \notin Range(CurrentIndex.order)
            /\ CurrentIndex.lastChapterIndex < saves[i].chapterIndex
            /\ NoSaveInFlight =>
                  \A id \in Range(CurrentIndex.order) : id \in DOMAIN reportsStore

\* C3: a resolved getAllReportsIndexed returned only reports whose id is in
\* the index order of the store it read, and only evidence whose id is named
\* by the evidenceRefs of a returned report.
C3_OnlyIndexedAndReferenced ==
    \A i \in 1..Len(gets) :
        gets[i].pc = "resolved" =>
            /\ \A k \in 1..Len(gets[i].reports) :
                  gets[i].reports[k].id \in Range(ReadIndex(gets[i].snapshot[1]).order)
            /\ \A e \in gets[i].evidence :
                  \E k \in 1..Len(gets[i].reports) :
                      e.id \in Range(gets[i].reports[k].evidenceRefs)

\* a read that ran while the reports store held a report the index does not list
C3_Witness ==
    \E i \in 1..Len(gets) :
        /\ gets[i].pc = "resolved"
        /\ DOMAIN gets[i].snapshot[2] \ Range(ReadIndex(gets[i].snapshot[1]).order) # {}

\* C4 (as stated): every report created by saveReport has a chapterIndex
\* strictly greater than that of every report created before it, also across
\* bulk clears.
C4_NeverReusedAcrossClears ==
    \A p, q \in 1..Len(saves) :
        (p < q /\ Resolved(p) /\ Resolved(q)) =>
            saves[q].chapterIndex > saves[p].chapterIndex

\* C4 (amended): of two reports created by saveReport calls that numbered
\* them with no bulk clear committed in between, the later one has the
\* strictly greater chapterIndex.
C4_NoReuseBetweenClears ==
    \A p, q \in 1..Len(saves) :
        (p < q /\ Resolved(p) /\ Resolved(q) /\ saves[p].epoch = saves[q].epoch) =>
            saves[q].chapterIndex > saves[p].chapterIndex

C4_Witness ==
    \E p, q \in 1..Len(saves) :
        /\ p < q /\ Resolved(p) /\ Resolved(q)
        /\ saves[p].epoch = 1 /\ saves[q].epoch = 1

\* C5: whenever no saveReport is in flight, the chapter indices of the
\* reports getAllReportsIndexed returns are exactly 1..n.
C5_NoGaps ==
    NoSaveInFlight =>
        LET reports == GetAllResult(metaStore, reportsStore, evidenceStore).reports
        IN  {reports[k].chapterIndex : k \in 1..Len(reports)} = 1..Len(reports)

\* the calls that resolved since the last committed bulk clear, in call order
AppendedSinceClear ==
    SelectSeq([i \in 1..Len(saves) |-> i],
              LAMBDA i : Resolved(i) /\ saves[i].resolvedEpoch = epoch)

\* C6: whenever no store operation is in flight, order lists exactly the ids
\* of the reports appended since the last bulk clear, once each and in
\* creation order, and lastChapterIndex is the chapterIndex of the last one.
C6_IndexListsExactlyAppended ==
    Quiescent =>
        LET done == AppendedSinceClear
        IN  /\ CurrentIndex.order = [k \in 1..Len(done) |-> saves[done[k]].id]
            /\ Len(done) > 0 =>
                  CurrentIndex.lastChapterIndex = saves[done[Len(done)]].chapterIndex

\* the index record as it was before call j pushed its id
IndexWithout(ms, j) ==
    IF "reports_index" \in DOMAIN ms
    THEN ("reports_index" :>
            [ms["reports_index"] EXCEPT
                !.order = SelectSeq(ms["reports_index"].order, LAMBDA id : id # saves[j].id)])
         @@ ms
    ELSE ms

\* the reports store as it is once call j has written its report
ReportsWith(rs, j) == (saves[j].id :> FullReport(saves[j])) @@ rs

\* C7: saveReport calls in flight together are serialized on the index: a
\* call that reads the index after another call read it finds that call's id
\* in order; calls whose index transactions committed have increasing chapter
\* indices, consecutive for consecutive calls, and each id is in order once.
C7_SavesSerializedOnIndex ==
    /\ \A p, q \in 1..Len(saves) :
          (/\ saves[p].readSeq > 0 /\ saves[q].readSeq > saves[p].readSeq
           /\ saves[p].epoch = saves[q].epoch
           /\ saves[p].pc \notin {"rejectedMeta"}) =>
              saves[p].id \in Range(saves[q].readOrder)
    /\ \A p, q \in 1..Len(saves) :
          (/\ MetaCommitted(p) /\ MetaCommitted(q)
           /\ saves[p].readSeq < saves[q].readSeq
           /\ saves[p].epoch = saves[q].epoch) =>
              /\ saves[q].chapterIndex > saves[p].chapterIndex
              /\ (~\E r \in 1..Len(saves) :
                      /\ MetaCommitted(r)
                      /\ saves[p].readSeq < saves[r].readSeq
                      /\ saves[r].readSeq < saves[q].readSeq) =>
                    saves[q].chapterIndex = saves[p].chapterIndex + 1
    /\ \A p \in 1..Len(saves) :
          (MetaCommitted(p) /\ saves[p].epoch = epoch) =>
              Occurrences(CurrentIndex.order, saves[p].id) = 1

\* two calls in flight at the same time, both past their index transaction
C7_Witness ==
    \E p, q \in 1..Len(saves) :
        /\ p # q
        /\ saves[p].pc = "reportQueued" /\ saves[q].pc = "reportQueued"
        /\ saves[p].epoch = saves[q].epoch

\* C8: the result of a getAllReportsIndexed is the result on one state of the
\* store, and for every saveReport that had committed its index but not its
\* report when the read ran, it equals the result on the store without that
\* call's index entry or the result on the store with that call's report.
C8_ReadSeesBeforeOrAfter ==
    \A i \in 1..Len(gets) :
        gets[i].pc = "resolved" =>
            LET ms == gets[i].snapshot[1]
                rs == gets[i].snapshot[2]
                es == gets[i].snapshot[3]
                result == [reports |-> gets[i].reports, evidence |-> gets[i].evidence]
            IN  /\ result = GetAllResult(ms, rs, es)
                /\ \A j \in gets[i].midSaves :
                      \/ result = GetAllResult(IndexWithout(ms, j), rs, es)
                      \/ result = GetAllResult(ms, ReportsWith(rs, j), es)

\* a read that ran between the two transactions of a saveReport
C8_Witness ==
    \E i \in 1..Len(gets) :
        /\ gets[i].pc = "resolved"
        /\ \E j \in gets[i].midSaves :
              saves[j].id \in Range(ReadIndex(gets[i].snapshot[1]).order)

StoreEmpty ==
    /\ DOMAIN evidenceStore = {}
    /\ DOMAIN reportsStore = {}
    /\ "reports_index" \notin DOMAIN metaStore

\* C9: clearEvidenceAndReports empties the evidence store, the reports store
\* and the index record in one step or changes none of them, and a
\* getAllReportsIndexed issued after a clear that followed only completed
\* operations returns no report and no evidence.
C9_ClearEmptiesAtomically ==
    /\ [](clean = "yes" => StoreEmpty)
    /\ [](\A i \in 1..Len(gets) :
              (gets[i].pc = "resolved" /\ gets[i].afterClear) =>
                  (gets[i].reports = <<>> /\ gets[i].evidence = {}))
    /\ [][/\ epoch' # epoch => StoreEmpty'
          /\ (\E i \in 1..Len(clears) :
                 clears[i].pc = "queued" /\ clears'[i].pc = "rejected") =>
                    UNCHANGED dbVars]_vars

\* a read issued after a clear that wiped stored evidence and reports
C9_Witness ==
    /\ \E i \in 1..Len(gets) : gets[i].pc = "resolved" /\ gets[i].afterClear
    /\ \E i \in 1..Len(saves) : Resolved(i) /\ saves[i].resolvedEpoch = 0
                                   /\ saves[i].evidenceRefs # <<>>
    /\ \E i \in 1..Len(evs) : evs[i].pc = "resolved"

----------------------------------------------------------------------------
(* Contradiction engine.  A file name is a sequence of characters.  An      *)
(* extracted text is a sequence of tokens: a date the date pattern matches  *)
(* ([kind |-> "date", day]), a reference phrase followed by a token         *)
(* ([kind |-> "ref", token]) or any other word.  A time is a number of      *)
(* ticks; a calendar day has TicksPerDay of them.                           *)

MaxEngineReports == 2
MaxEngineEvidence == 2
PASSES == 3
TicksPerDay == 2

Lower(c) == CASE c = "A" -> "a" [] c = "B" -> "b" [] OTHER -> c

ToLowerCase_Identity(str) == str

\* String.prototype.toLowerCase
ToLowerCase(str) == [k \in 1..Len(str) |-> Lower(str[k])]

\* str.replace(/\.[^/.]+$/, ""): drop a last ".ext" that holds no "/" or "."
StripExtension(str) ==
    LET dots == {k \in 1..(Len(str) - 1) :
                    /\ str[k] = "."
                    /\ \A m \in (k+1)..Len(str) : str[m] \notin {".", "/"}}
    IN  IF dots = {} THEN str ELSE SubSeq(str, 1, (CHOOSE k \in dots : TRUE) - 1)

\* String.prototype.includes
Includes(str, part) ==
    \E k \in 0..(Len(str) - Len(part)) : SubSeq(str, k + 1, k + Len(part)) = part

NormalizedName(e) == StripExtension(ToLowerCase(e.name))

MentionedDate_DayNumber(token) == token.day

\* new Date(dateStr): midnight of the day the text mentions
MentionedDate(token) == token.day * TicksPerDay

\* Date.prototype.toLocaleDateString: the calendar day of a time
ToLocaleDateString(time) == time \div TicksPerDay

\* new Map(evidenceList.map(e => [e.id, e])).get(id): the last entry with the id
EvidenceMapHas(evidenceList, id) == \E k \in 1..Len(evidenceList) : evidenceList[k].id = id

EvidenceMapGet(evidenceList, id) ==
    evidenceList[CHOOSE k \in 1..Len(evidenceList) :
                    /\ evidenceList[k].id = id
                    /\ \A m \in (k+1)..Len(evidenceList) : evidenceList[m].id # id]

RECURSIVE FlatRefs(_)
FlatRefs(reports) ==
    IF reports = <<>> THEN <<>>
    ELSE Head(reports).evidenceRefs \o FlatRefs(Tail(reports))

RECURSIVE ScopeFrom(_, _, _)
\* the evidence the reports reference, once each, in order of first reference
ScopeFrom(refs, evidenceList, acc) ==
    IF refs = <<>> THEN acc
    ELSE LET id == Head(refs)
             take == /\ EvidenceMapHas(evidenceList, id)
                     /\ \A k \in 1..Len(acc) : acc[k].id # id
         IN  ScopeFrom(Tail(refs), evidenceList,
                       IF take THEN Append(acc, EvidenceMapGet(evidenceList, id)) ELSE acc)

AllEvidenceInScope(reports, evidenceList) == ScopeFrom(FlatRefs(reports), evidenceList, <<>>)

\* e.ocrText && e.ocrText.trim().length > 0
HasText(e) == e.ocrText.defined /\ Len(e.ocrText.tokens) > 0

DriftExplanation(evA, evB) == <<"similar names, different hashes", evA.name, evB.name>>

\* Rule cross_doc_drift for the pair (evA, evB), evA before evB in the scope
DriftRule(evA, evB) ==
    LET nameA == NormalizedName(evA)
        nameB == NormalizedName(evB)
    IN  IF /\ (Includes(nameA, nameB) \/ Includes(nameB, nameA))
           /\ nameA # nameB
           /\ evA.sha512 # evB.sha512
        THEN << [type |-> "cross_doc_drift", sources |-> <<evA.id, evB.id>>,
                 explanation |-> DriftExplanation(evA, evB)] >>
        ELSE <<>>

RECURSIVE DriftInner(_, _, _)
DriftInner(scope, i, j) ==
    IF j > Len(scope) THEN <<>>
    ELSE DriftRule(scope[i], scope[j]) \o DriftInner(scope, i, j + 1)

RECURSIVE DriftOuter(_, _)
DriftOuter(scope, i) ==
    IF i > Len(scope) THEN <<>>
    ELSE DriftInner(scope, i, i + 1) \o DriftOuter(scope, i + 1)

RECURSIVE MetadataRule(_, _)
\* Rule metadata_mismatch: one contradiction per mentioned date after createdAt
MetadataRule(evidence, tokens) ==
    IF tokens = <<>> THEN <<>>
    ELSE LET t == Head(tokens)
             hit == t.kind = "date" /\ MentionedDate(t) > evidence.createdAt
         IN  (IF hit
              THEN << [type |-> "metadata_mismatch", sources |-> <<evidence.id>>,
                       explanation |-> <<"future date",
                                         ToLocaleDateString(MentionedDate(t)),
                                         ToLocaleDateString(evidence.createdAt)>>] >>
              ELSE <<>>)
             \o MetadataRule(evidence, Tail(tokens))

RECURSIVE OmissionRule(_, _, _)
\* Rule omission: one contradiction per reference no name in scope contains
OmissionRule(evidence, tokens, scope) ==
    IF tokens = <<>> THEN <<>>
    ELSE LET t == Head(tokens)
             found == \E k \in 1..Len(scope) :
                          Includes(ToLowerCase(scope[k].name), ToLowerCase(t.token))
         IN  (IF t.kind = "ref" /\ ~found
              THEN << [type |-> "omission", sources |-> <<evidence.id>>,
                       explanation |-> <<"missing exhibit", evidence.name, t.token>>] >>
              ELSE <<>>)
             \o OmissionRule(evidence, Tail(tokens), scope)

RECURSIVE TextRules(_, _)
TextRules(textEvidence, scope) ==
    IF textEvidence = <<>> THEN <<>>
    ELSE MetadataRule(Head(textEvidence), Head(textEvidence).ocrText.tokens)
         \o OmissionRule(Head(textEvidence), Head(textEvidence).ocrText.tokens, scope)
         \o TextRules(Tail(textEvidence), scope)

analyzeContradictionsOnce(reports, evidenceList) ==
    LET allEvidenceInScope == AllEvidenceInScope(reports, evidenceList)
        textEvidence == SelectSeq(allEvidenceInScope, HasText)
    IN  DriftOuter(allEvidenceInScope, 1) \o TextRules(textEvidence, allEvidenceInScope)

\* `${c.type}-${[...c.sources].sort().join('-')}-${c.explanation}`
KeyOf(c) == <<c.type, SortSeq(c.sources, LAMBDA a, b : a < b), c.explanation>>

WithKey(results) ==
    [k \in 1..Len(results) |-> [contradiction |-> results[k], key |-> KeyOf(results[k])]]

VerificationOf_TwoVerifies(count) ==
    IF count >= 2 THEN "Verified (3/3)" ELSE "Inconclusive (<=1/3)"

\* the top tier only for a count that is exactly three
VerificationOf_ExactlyThree(count) ==
    IF count = 3 THEN "Verified (3/3)"
    ELSE IF count = 2 THEN "Consensus (2/3)"
    ELSE "Inconclusive (<=1/3)"

\* the tier of an occurrence count
VerificationOf(count) ==
    IF count >= 3 THEN "Verified (3/3)"
    ELSE IF count = 2 THEN "Consensus (2/3)"
    ELSE "Inconclusive (<=1/3)"

CountOf(found, key) == Cardinality({k \in 1..Len(found) : found[k].key = key})

\* contradictionCounts and finalContradictions: one record per key, in order
\* of first occurrence, with the tier of the key's count
Reduce(found) ==
    LET firsts == SelectSeq([k \in 1..Len(found) |-> k],
                            LAMBDA k : \A m \in 1..(k-1) : found[m].key # found[k].key)
    IN  [n \in 1..Len(firsts) |->
            [contradiction |-> found[firsts[n]].contradiction,
             key |-> found[firsts[n]].key,
             verification |-> VerificationOf(CountOf(found, found[firsts[n]].key))]]

ShuffleOutcomes(n) == {f \in [1..n -> 1..n] : \A a, b \in 1..n : a # b => f[a] # f[b]}

\* shuffle(array) with the outcome f of its random draws
Shuffled(array, f) == [k \in 1..Len(array) |-> array[f[k]]]

----------------------------------------------------------------------------
(* runContradictionAnalysis on bounded inputs *)

CreatedAt == 5 * TicksPerDay + 1

EngineNames == { <<"a", ".", "p">>, <<"a", "b", ".", "p">>, <<"A", ".", "p">> }
EngineTexts ==
    { NoText,
      Text(<< [kind |-> "date", day |-> 9], [kind |-> "ref", token |-> <<"B">>] >>),
      Text(<< [kind |-> "date", day |-> 5], [kind |-> "ref", token |-> <<"c">>] >>),
      Text(<< [kind |-> "date", day |-> 9], [kind |-> "date", day |-> 9],
              [kind |-> "ref", token |-> <<"a">>] >>) }

\* a name, the bytes and an extracted text
EngineAttributes == EngineNames \X Contents \X EngineTexts

\* the Evidence record of a file with these attributes stored under id
EngineRecord(id, a) ==
    [id |-> id, name |-> a[1], blob |-> a[2], sha512 |-> calculateSHA512(a[2]),
     createdAt |-> CreatedAt, ocrText |-> a[3]]

\* the Evidence records saveEvidence and updateEvidence can have stored under id
EngineEvidence(id) == {EngineRecord(id, a) : a \in EngineAttributes}

\* evidence lists of length n as getAllReportsIndexed returns them (distinct
\* ids), in any order
EngineEvidenceLists(n) ==
    {Shuffled([k \in 1..n |-> EngineRecord(k, a[k])], f) :
        a \in [1..n -> EngineAttributes], f \in ShuffleOutcomes(n)}

EngineRefLists ==
    {<<>>} \cup {<<a>> : a \in 1..MaxEngineEvidence}
           \cup {p \in (1..MaxEngineEvidence) \X (1..MaxEngineEvidence) : p[1] # p[2]}

EngineReports(n) ==
    [1..n -> [id : {0}, chapterIndex : {0}, evidenceRefs : EngineRefLists]]

InitEngine ==
    /\ InitStore
    /\ InitAppIdle
    /\ \E n \in 0..MaxEngineEvidence : engEvidence \in EngineEvidenceLists(n)
    /\ \E n \in 1..MaxEngineReports :
          engReports \in {[k \in 1..n |-> [id |-> 100 + k, chapterIndex |-> k,
                                          evidenceRefs |-> r[k].evidenceRefs]] :
                             r \in EngineReports(n)}
    /\ engPass = 0
    /\ allFoundContradictions = <<>>
    /\ finalContradictions = <<>>
    /\ engPc = "passes"

\* one iteration of the loop: shuffle both lists, analyse, key the results
EnginePass(fr, fe) ==
    /\ engPc = "passes"
    /\ engPass < PASSES
    /\ LET shuffledReports == Shuffled(engReports, fr)
           shuffledEvidence == Shuffled(engEvidence, fe)
           results == analyzeContradictionsOnce(shuffledReports, shuffledEvidence)
       IN  allFoundContradictions' = allFoundContradictions \o WithKey(results)
    /\ engPass' = engPass + 1
    /\ UNCHANGED <<storeVars, engReports, engEvidence, finalContradictions, engPc>>

\* the counting and labelling run without waiting for the third pass
EngineReduce_Early ==
    /\ engPc = "passes"
    /\ engPass >= 1
    /\ finalContradictions' = Reduce(allFoundContradictions)
    /\ engPc' = "done"
    /\ UNCHANGED <<storeVars, engReports, engEvidence, engPass, allFoundContradictions>>

\* after the loop: count per key, label, return
EngineReduce ==
    /\ engPc = "passes"
    /\ engPass = PASSES
    /\ finalContradictions' = Reduce(allFoundContradictions)
    /\ engPc' = "done"
    /\ UNCHANGED <<storeVars, engReports, engEvidence, engPass, allFoundContradictions>>

NextEngine ==
    \/ \E fr \in ShuffleOutcomes(Len(engReports)), fe \in ShuffleOutcomes(Len(engEvidence)) :
          EnginePass(fr, fe) /\ UNCHANGED appVars
    \/ EngineReduce /\ UNCHANGED appVars

SpecEngine == InitEngine /\ [][NextEngine]_vars

----------------------------------------------------------------------------
(* Properties of the contradiction engine *)

ById(list) == SortSeq(list, LAMBDA a, b : a.id < b.id)

\* the result of a run on the same reports and evidence listed by id, whose
\* shuffles leave the lists as they are
ReferenceResult ==
    LET results == analyzeContradictionsOnce(ById(engReports), ById(engEvidence))
    IN  Reduce(WithKey(results) \o WithKey(results) \o WithKey(results))

KeyTiers(final) == {<<final[k].key, final[k].verification>> : k \in 1..Len(final)}

\* C10: for the same reports and evidence, in any list order and for any
\* outcome of the three shuffles, runContradictionAnalysis returns the same
\* set of (type, sorted sources, explanation) keys with the same tiers.
C10_PermutationInvariant ==
    engPc = "done" => KeyTiers(finalContradictions) = KeyTiers(ReferenceResult)

Labels == {"Verified (3/3)", "Consensus (2/3)", "Inconclusive (<=1/3)"}

FoundKeys == {allFoundContradictions[k].key : k \in 1..Len(allFoundContradictions)}

FinalWithCount(n) ==
    \E k \in 1..Len(finalContradictions) :
        CountOf(allFoundContradictions, finalContradictions[k].key) = n

\* C11: runContradictionAnalysis returns exactly one record for each key
\* (type, sorted sources, explanation) a pass produced; the record is a
\* contradiction found under that key, and its verification is
\* 'Verified (3/3)' when the key occurred 3 times over the passes,
\* 'Consensus (2/3)' when twice, 'Inconclusive' when at most once, and in
\* every case one of these three labels.
C11_OneRecordPerKeyWithTier ==
    engPc = "done" =>
        /\ \A a, b \in 1..Len(finalContradictions) :
              finalContradictions[a].key = finalContradictions[b].key => a = b
        /\ {finalContradictions[k].key : k \in 1..Len(finalContradictions)} = FoundKeys
        /\ \A k \in 1..Len(finalContradictions) :
              LET r == finalContradictions[k]
                  n == CountOf(allFoundContradictions, r.key)
              IN  /\ \E m \in 1..Len(allFoundContradictions) :
                        /\ allFoundContradictions[m].key = r.key
                        /\ allFoundContradictions[m].contradiction = r.contradiction
                  /\ n = 3 => r.verification = "Verified (3/3)"
                  /\ n = 2 => r.verification = "Consensus (2/3)"
                  /\ n <= 1 => r.verification = "Inconclusive (<=1/3)"
                  /\ r.verification \in Labels

\* a run that returns a key found in all three passes, one found in two and
\* one found in one
C11_Witness ==
    engPc = "done" /\ FinalWithCount(3) /\ FinalWithCount(2) /\ FinalWithCount(1)

----------------------------------------------------------------------------
(* The three rules, seen from the result of a run *)

\* the evidence in scope: referenced by a report and present in the list
ScopeSet == Range(AllEvidenceInScope(engReports, engEvidence))

FinalOf(type, ids) ==
    {k \in 1..Len(finalContradictions) :
        /\ finalContradictions[k].contradiction.type = type
        /\ Range(finalContradictions[k].contradiction.sources) = ids}

LowerCased(str) == [k \in 1..Len(str) |-> Lower(str[k])]

SimilarNames(a, b) ==
    LET nameA == StripExtension(LowerCased(a.name))
        nameB == StripExtension(LowerCased(b.name))
    IN  nameA # nameB /\ (Includes(nameA, nameB) \/ Includes(nameB, nameA))

\* C12: for two evidence items in scope whose normalized names are unequal
\* and one contains the other, the run returns exactly one cross_doc_drift
\* contradiction with both ids as sources when the digests differ and none
\* when they are identical, whichever reports reference the two items.
C12_DriftExactlyOne ==
    engPc = "done" =>
        \A a, b \in ScopeSet :
            (a.id # b.id /\ SimilarNames(a, b)) =>
                Cardinality(FinalOf("cross_doc_drift", {a.id, b.id}))
                    = IF a.sha512 # b.sha512 THEN 1 ELSE 0

\* the dates the extracted text of e mentions
DatesIn(e) ==
    IF e.ocrText.defined
    THEN {e.ocrText.tokens[k].day :
             k \in {m \in 1..Len(e.ocrText.tokens) : e.ocrText.tokens[m].kind = "date"}}
    ELSE {}

\* the returned metadata_mismatch records about evidence e and the day
MismatchOf(e, day) ==
    {k \in FinalOf("metadata_mismatch", {e.id}) :
        finalContradictions[k].contradiction.explanation[2] = day}

\* C13: for evidence in scope created at T whose extracted text mentions a
\* date, the run returns one metadata_mismatch contradiction with that
\* evidence id as its source when the date (its midnight) is strictly after
\* T and none when it is on or before T; evidence without extracted text
\* never produces one.
C13_MetadataMismatch ==
    engPc = "done" =>
        \A e \in ScopeSet :
            /\ \A day \in DatesIn(e) :
                  Cardinality(MismatchOf(e, day))
                      = IF day * TicksPerDay > e.createdAt THEN 1 ELSE 0
            /\ (~e.ocrText.defined \/ e.ocrText.tokens = <<>>)
                  => FinalOf("metadata_mismatch", {e.id}) = {}

\* a run over one item that mentions a later date, and is reported, and one
\* that mentions the day of its creation, and is not
C13_Witness ==
    /\ engPc = "done"
    /\ \E e \in ScopeSet : \E day \in DatesIn(e) :
          day * TicksPerDay > e.createdAt /\ MismatchOf(e, day) # {}
    /\ \E e \in ScopeSet : \E day \in DatesIn(e) :
          /\ day * TicksPerDay <= e.createdAt
          /\ FinalOf("metadata_mismatch", {e.id}) = {}

\* the reference tokens the extracted text of e holds
RefsIn(e) ==
    IF e.ocrText.defined
    THEN {e.ocrText.tokens[k].token :
             k \in {m \in 1..Len(e.ocrText.tokens) : e.ocrText.tokens[m].kind = "ref"}}
    ELSE {}

\* the returned omission records about evidence e and the referenced token
OmissionOf(e, token) ==
    {k \in FinalOf("omission", {e.id}) :
        finalContradictions[k].contradiction.explanation[3] = token}

\* some evidence in scope has a name that, case ignored, contains the token
NamedInScope(token) ==
    \E x \in ScopeSet : Includes(LowerCased(x.name), LowerCased(token))

\* C14: for evidence in scope whose extracted text holds a reference phrase
\* followed by a token, the run returns one omission contradiction for that
\* reference when no evidence in scope has a name that (lower-cased, as the
\* token is) contains the lower-cased token, and none when such evidence is
\* in scope.
C14_Omission ==
    engPc = "done" =>
        \A e \in ScopeSet : \A token \in RefsIn(e) :
            Cardinality(OmissionOf(e, token)) = IF NamedInScope(token) THEN 0 ELSE 1

\* a run with a reference to a file that is in scope only under an
\* upper-case name, and is not reported, and one to a file that is not in
\* scope, and is reported
C14_Witness ==
    /\ engPc = "done"
    /\ \E e \in ScopeSet : \E token \in RefsIn(e) :
          /\ NamedInScope(token)
          /\ \A x \in ScopeSet : ~Includes(x.name, LowerCased(token))
          /\ OmissionOf(e, token) = {}
    /\ \E e \in ScopeSet : \E token \in RefsIn(e) : OmissionOf(e, token) # {}

\* C15: when the evidence scope (the evidence the given reports reference
\* that is present in the given list) is empty or holds fewer than two
\* items, the run ends without an error and returns an empty list.
C15_SmallScopeEmptyResult ==
    (engPc = "done" /\ Cardinality(ScopeSet) < 2) => finalContradictions = <<>>

----------------------------------------------------------------------------
(* The report-creation flow of the App component: runAnalysisAndSaveReport  *)

MaxAnalysis == 1
ANALYSIS_RUNS == 3

\* what one oracle invocation gets back: a fenced JSON block with reportHtml
\* and findings, one that parses but lacks a field, one that does not parse,
\* a text without a JSON block, or a failed request
OracleResponses == {"report", "incomplete", "unparsable", "unstructured", "failed"}

generateSealedReportFromEvidence(response) ==
    CASE response = "report" -> [intro |-> "introText", data |-> "data"]
      [] response = "incomplete" -> [intro |-> "content was incomplete", data |-> "null"]
      [] response = "unparsable" -> [intro |-> "issue with its format", data |-> "null"]
      [] response = "unstructured" -> [intro |-> "unable to generate", data |-> "null"]
      [] response = "failed" -> [intro |-> "an error occurred", data |-> "null"]

ValidResults_Unfiltered(results) == results

\* results.filter(r => r.data)
ValidResults(results) == SelectSeq(results, LAMBDA r : r.data # "null")

\* the tier of the number of oracle invocations that gave a report
VerificationLabel(consensusCount) ==
    IF consensusCount = 3 THEN "Verified (3/3)"
    ELSE IF consensusCount = 2 THEN "Consensus (2/3)"
    ELSE "Inconclusive (<=1/3)"

Message(content) == [type |-> "message", sender |-> "assistant", content |-> content]

\* the finally block
LoadingCleared ==
    /\ isLoading' = FALSE
    /\ isProcessingFile' = FALSE
    /\ processingStatus' = "null"

\* runAnalysisAndSaveReport(evidence) up to await Promise.all(analysisPromises)
AnalysisStartUpTo(max, evidence) ==
    /\ Len(analyses) < max
    /\ isLoading' = TRUE
    /\ isProcessingFile' = TRUE
    /\ processingStatus' = "Running AI analysis..."
    /\ analyses' = Append(analyses, [pc |-> "analysing", evidence |-> evidence,
                                     results |-> <<>>, validResults |-> <<>>,
                                     verificationLabel |-> "none", save |-> 0])
    /\ UNCHANGED <<storeVars, engineVars>>

AnalysisStart(evidence) == AnalysisStartUpTo(MaxAnalysis, evidence) /\ UNCHANGED chatItems

\* the three invocations returned and none gave data: message, return, finally
AnalysisInconclusive(i, responses) ==
    /\ analyses[i].pc = "analysing"
    /\ LET results == [k \in 1..ANALYSIS_RUNS |->
                          generateSealedReportFromEvidence(responses[k])]
       IN  /\ Len(ValidResults(results)) = 0
           /\ analyses' = [analyses EXCEPT ![i].pc = "ended", ![i].results = results]
    /\ chatItems' = Append(chatItems, Message("Analysis was inconclusive"))
    /\ LoadingCleared
    /\ UNCHANGED <<storeVars, engineVars>>

\* the three invocations returned and some gave data: label, call saveReport
AnalysisSaveReport(i, responses) ==
    /\ analyses[i].pc = "analysing"
    /\ LET results == [k \in 1..ANALYSIS_RUNS |->
                          generateSealedReportFromEvidence(responses[k])]
           validResults == ValidResults(results)
           consensusCount == Len(validResults)
       IN  /\ consensusCount # 0
           /\ analyses' = [analyses EXCEPT
                  ![i].pc = "saving",
                  ![i].results = results,
                  ![i].validResults = validResults,
                  ![i].verificationLabel = VerificationLabel(consensusCount),
                  ![i].save = Len(saves) + 1]
    /\ SaveReportCall(<<analyses[i].evidence.id>>)
    /\ UNCHANGED <<isLoading, isProcessingFile, processingStatus, chatItems>>

\* saveReport resolved: the message and the report item, finally
AnalysisSaved(i) ==
    /\ analyses[i].pc = "saving"
    /\ saves[analyses[i].save].pc = "resolved"
    /\ analyses' = [analyses EXCEPT ![i].pc = "ended"]
    /\ chatItems' = chatItems \o
           << Message(<<"Report saved", analyses[i].verificationLabel>>),
              [type |-> "report", id |-> saves[analyses[i].save].id,
               evidence |-> analyses[i].evidence] >>
    /\ LoadingCleared
    /\ UNCHANGED <<storeVars, engineVars>>

\* saveReport rejected: catch, finally
AnalysisSaveFailed(i) ==
    /\ analyses[i].pc = "saving"
    /\ saves[analyses[i].save].pc \in {"rejectedGet", "rejectedMeta", "rejectedReport"}
    /\ analyses' = [analyses EXCEPT ![i].pc = "ended"]
    /\ chatItems' = Append(chatItems, Message("A critical error occurred"))
    /\ LoadingCleared
    /\ UNCHANGED <<storeVars, engineVars>>

ResponseLists == [1..ANALYSIS_RUNS -> OracleResponses]

\* files are ingested, an analysis runs on an ingested file, and the
\* contradiction flow saves reports of its own
NextAnalysis ==
    \/ \E name \in FileNames, content \in Contents : SaveEvidenceCall(name, content) /\ UNCHANGED appVars
    \/ \E i \in 1..Len(evs) : SaveEvidenceComplete(i) /\ UNCHANGED appVars
    \/ \E i \in 1..Len(evs) : SaveEvidenceError(i) /\ UNCHANGED appVars
    \/ \E evidence \in HeldEvidence : AnalysisStart(evidence) /\ UNCHANGED uploadVars
    \/ \E i \in 1..Len(analyses), responses \in ResponseLists :
          AnalysisInconclusive(i, responses) /\ UNCHANGED uploadVars
    \/ \E i \in 1..Len(analyses), responses \in ResponseLists :
          AnalysisSaveReport(i, responses) /\ UNCHANGED uploadVars
    \/ \E i \in 1..Len(analyses) : AnalysisSaved(i) /\ UNCHANGED uploadVars
    \/ \E i \in 1..Len(analyses) : AnalysisSaveFailed(i) /\ UNCHANGED uploadVars
    \/ \E refs \in RefChoices : SaveReportCall(refs) /\ UNCHANGED appVars
    \/ \E i \in 1..Len(saves) : SaveReportGetSuccess(i) /\ UNCHANGED appVars
    \/ \E i \in 1..Len(saves) : SaveReportGetError(i) /\ UNCHANGED appVars
    \/ \E i \in 1..Len(saves) : SaveReportMetaComplete(i) /\ UNCHANGED appVars
    \/ \E i \in 1..Len(saves) : SaveReportMetaError(i) /\ UNCHANGED appVars
    \/ \E i \in 1..Len(saves) : SaveReportReportComplete(i) /\ UNCHANGED appVars
    \/ \E i \in 1..Len(saves) : SaveReportReportError(i) /\ UNCHANGED appVars

SpecAnalysis == Init /\ [][NextAnalysis]_vars

----------------------------------------------------------------------------
(* Properties of the report-creation flow *)

\* the counts the engine has tiered in this run
EngineCounts == {CountOf(allFoundContradictions, key) : key \in FoundKeys}

\* the counts the flow tiers: the lengths of a non-empty validResults
ConsensusCounts == 1..ANALYSIS_RUNS

\* C16: the mapping the engine applies to a key's occurrence count and the
\* mapping the report-creation flow applies to the number of oracle
\* invocations that agreed give the same label for every count either of
\* them can receive.
C16_OneTierMapping ==
    \A n \in ConsensusCounts \cup (IF engPc = "done" THEN EngineCounts ELSE {}) :
        VerificationOf(n) = VerificationLabel(n)

\* the three invocations of flow a have returned, none with usable data
NoUsableData(a) ==
    /\ Len(a.results) = ANALYSIS_RUNS
    /\ \A k \in 1..Len(a.results) : a.results[k].data = "null"

\* this step starts flow i or changes its record
FlowStep(i) == i > Len(analyses) \/ analyses'[i] # analyses[i]

\* C17: when every oracle invocation of a runAnalysisAndSaveReport call
\* returned no usable data, the call makes no saveReport call and none of its
\* steps changes the reports collection or reports_index; the step on which
\* the results arrive adds a message of the assistant and leaves the loading
\* flags cleared, and the flow has ended.
C17_NoDataPersistsNothing ==
    /\ [](\A i \in 1..Len(analyses) :
             NoUsableData(analyses[i]) =>
                 analyses[i].pc = "ended" /\ analyses[i].save = 0)
    /\ [][\A i \in 1..Len(analyses') :
             (FlowStep(i) /\ (NoUsableData(analyses'[i]) \/ i > Len(analyses))) =>
                 UNCHANGED <<reportsStore, metaStore, saves, txq>>]_vars
    /\ [][\A i \in 1..Len(analyses) :
             (FlowStep(i) /\ NoUsableData(analyses'[i])) =>
                 /\ isLoading' = FALSE
                 /\ isProcessingFile' = FALSE
                 /\ processingStatus' = "null"
                 /\ Len(chatItems') = Len(chatItems) + 1
                 /\ chatItems'[Len(chatItems')].type = "message"
                 /\ chatItems'[Len(chatItems')].sender = "assistant"]_vars

\* an analysis whose three invocations all failed has ended while a report
\* saved earlier is stored and indexed
C17_Witness ==
    \E i \in 1..Len(analyses) :
        /\ NoUsableData(analyses[i])
        /\ analyses[i].pc = "ended"
        /\ reportsStore # <<>>
        /\ metaStore # <<>>

----------------------------------------------------------------------------
(* Properties of the evidence collection and of the references to it *)

Rejected(i) == saves[i].pc \in {"rejectedGet", "rejectedMeta", "rejectedReport"}

\* the returned report at position k names an id the returned evidence lacks
MissingRef(g, k) ==
    \E id \in Range(g.reports[k].evidenceRefs) : id \notin {e.id : e \in g.evidence}

\* C18: a reference to evidence that is not stored is tolerated on write and
\* on read.  saveReport stores the evidenceRefs it was given and, like
\* getAllReportsIndexed, rejects only on a storage failure; a read returns
\* the stored reports of the index in index order, whether or not their
\* references resolve, and as evidence exactly the stored records the
\* returned reports reference.
C18_MissingReferenceTolerated ==
    /\ \A i \in 1..Len(saves) :
          (Resolved(i) /\ saves[i].id \in DOMAIN reportsStore) =>
              reportsStore[saves[i].id].evidenceRefs = saves[i].evidenceRefs
    /\ failures = 0 =>
          /\ \A i \in 1..Len(saves) : ~Rejected(i)
          /\ \A i \in 1..Len(gets) : gets[i].pc # "rejected"
    /\ \A i \in 1..Len(gets) :
          gets[i].pc = "resolved" =>
              LET rs == gets[i].snapshot[2]
                  es == gets[i].snapshot[3]
                  present == SelectSeq(ReadIndex(gets[i].snapshot[1]).order,
                                       LAMBDA id : id \in DOMAIN rs)
                  named == UNION {Range(rs[present[k]].evidenceRefs) :
                                     k \in 1..Len(present)}
              IN  /\ gets[i].reports = [k \in 1..Len(present) |-> rs[present[k]]]
                  /\ gets[i].evidence = {es[id] : id \in named \cap DOMAIN es}

\* a report saved after the bulk clear that removed the evidence it names is
\* returned by a read, whose evidence lacks the id
C18_Witness ==
    \E i \in 1..Len(gets), j \in 1..Len(saves) :
        /\ gets[i].pc = "resolved"
        /\ Resolved(j)
        /\ saves[j].epoch = 1
        /\ \E k \in 1..Len(gets[i].reports) :
              /\ gets[i].reports[k].id = saves[j].id
              /\ MissingRef(gets[i], k)

\* C19: updateEvidence never alters a digest: when updateEvidence(e)
\* resolves, the record stored under e.id has the sha512 and the raw content
\* that the record stored under that id had when the call was made.
C19_UpdateKeepsDigest ==
    [][\A i \in 1..Len(upds) :
          (upds[i].pc = "queued" /\ upds'[i].pc = "resolved" /\ upds[i].before # <<>>) =>
              LET after == evidenceStore'[upds[i].evidence.id]
              IN  /\ after.sha512 = upds[i].before[1].sha512
                  /\ after.blob = upds[i].before[1].blob]_vars

\* an update of a stored record has resolved and the record carries the text
C19_Witness ==
    \E i \in 1..Len(upds) :
        /\ upds[i].pc = "resolved"
        /\ upds[i].before # <<>>
        /\ upds[i].evidence.id \in DOMAIN evidenceStore
        /\ evidenceStore[upds[i].evidence.id].ocrText.defined

----------------------------------------------------------------------------
(* The evidence collection alone: ingest, text attachment and bulk clear *)

MaxIngest == 2

NextEvidence ==
    \/ \E name \in FileNames, content \in Contents :
          SaveEvidenceUpTo(MaxIngest, name, content) /\ UNCHANGED appVars
    \/ \E i \in 1..Len(evs) : SaveEvidenceComplete(i) /\ UNCHANGED appVars
    \/ \E i \in 1..Len(evs) : SaveEvidenceError(i) /\ UNCHANGED appVars
    \/ \E e \in HeldEvidence, text \in Texts : UpdateEvidenceCall(e, text) /\ UNCHANGED appVars
    \/ \E i \in 1..Len(upds) : UpdateEvidenceComplete(i) /\ UNCHANGED appVars
    \/ \E i \in 1..Len(upds) : UpdateEvidenceError(i) /\ UNCHANGED appVars
    \/ ClearCall /\ UNCHANGED appVars
    \/ \E i \in 1..Len(clears) : ClearComplete(i) /\ UNCHANGED appVars
    \/ \E i \in 1..Len(clears) : ClearError(i) /\ UNCHANGED appVars

SpecEvidence == Init /\ [][NextEvidence]_vars

\* C20: two saveEvidence calls on identical bytes, whatever happens between
\* them, create records with identical sha512 and distinct ids; no two calls
\* are given the same id, also across a bulk clear, and a stored record has
\* the name, the bytes and the digest of the one call that was given its id.
C20_DigestIsIdentityAnchor ==
    /\ \A i, j \in 1..Len(evs) :
          i # j =>
              /\ evs[i].evidence.id # evs[j].evidence.id
              /\ evs[i].evidence.blob = evs[j].evidence.blob
                    => evs[i].evidence.sha512 = evs[j].evidence.sha512
    /\ \A id \in DOMAIN evidenceStore :
          \E i \in 1..Len(evs) :
              /\ evs[i].evidence.id = id
              /\ evidenceStore[id].id = id
              /\ evidenceStore[id].name = evs[i].evidence.name
              /\ evidenceStore[id].blob = evs[i].evidence.blob
              /\ evidenceStore[id].sha512 = evs[i].evidence.sha512

\* the same bytes were ingested before and after a bulk clear: the first
\* record is gone, the second is stored
C20_Witness ==
    \E i, j \in 1..Len(evs) :
        /\ i < j
        /\ evs[i].pc = "resolved" /\ evs[j].pc = "resolved"
        /\ evs[i].evidence.blob = evs[j].evidence.blob
        /\ epoch = 1
        /\ evs[i].evidence.id \notin DOMAIN evidenceStore
        /\ evs[j].evidence.id \in DOMAIN evidenceStore

----------------------------------------------------------------------------
(* Transactions that abort without an error event *)

\* A transaction whose commit fails (quota exceeded, a failed disk write) is
\* aborted by the browser: its `abort` event fires and no `error` event does.
\* The write operations set transaction.oncomplete and transaction.onerror
\* only, so none of their handlers runs and the promise is left pending.

SaveEvidenceAbort(i) ==
    /\ evs[i].pc = "queued"
    /\ Ready(<<"saveEvidence", i>>)
    /\ CanFail
    /\ failures' = failures + 1
    /\ evs' = [evs EXCEPT ![i].pc = "aborted"]
    /\ txq' = Finished(<<"saveEvidence", i>>)
    /\ UNCHANGED <<engineVars, dbVars, saves, gets, clears, upds, nextUuid, epoch, clean>>

UpdateEvidenceAbort(i) ==
    /\ upds[i].pc = "queued"
    /\ Ready(<<"updateEvidence", i>>)
    /\ CanFail
    /\ failures' = failures + 1
    /\ upds' = [upds EXCEPT ![i].pc = "aborted"]
    /\ txq' = Finished(<<"updateEvidence", i>>)
    /\ UNCHANGED <<engineVars, dbVars, saves, gets, clears, evs, nextUuid, epoch, clean>>

\* the index transaction aborts at commit: the report transaction is never
\* created
SaveReportMetaAbort(i) ==
    /\ saves[i].pc = "metaPut"
    /\ Ready(<<"saveReport", i>>)
    /\ CanFail
    /\ failures' = failures + 1
    /\ saves' = [saves EXCEPT ![i].pc = "abortedMeta"]
    /\ txq' = Finished(<<"saveReport", i>>)
    /\ UNCHANGED <<engineVars, dbVars, gets, clears, evs, upds, nextUuid, epoch, clean>>

SaveReportReportAbort(i) ==
    /\ saves[i].pc = "reportQueued"
    /\ Ready(<<"saveReport", i>>)
    /\ CanFail
    /\ failures' = failures + 1
    /\ saves' = [saves EXCEPT ![i].pc = "abortedReport"]
    /\ txq' = Finished(<<"saveReport", i>>)
    /\ UNCHANGED <<engineVars, dbVars, gets, clears, evs, upds, nextUuid, epoch, clean>>

ClearAbort(i) ==
    /\ clears[i].pc = "queued"
    /\ Ready(<<"clear", i>>)
    /\ CanFail
    /\ failures' = failures + 1
    /\ clears' = [clears EXCEPT ![i].pc = "aborted"]
    /\ txq' = Finished(<<"clear", i>>)
    /\ clean' = "no"
    /\ UNCHANGED <<engineVars, dbVars, saves, gets, evs, upds, nextUuid, epoch>>

\* The store under arbitrary callers, with both ways a transaction can fail
NextFailure ==
    \/ Next
    \/ \E i \in 1..Len(evs) : SaveEvidenceAbort(i) /\ UNCHANGED appVars
    \/ \E i \in 1..Len(upds) : UpdateEvidenceAbort(i) /\ UNCHANGED appVars
    \/ \E i \in 1..Len(saves) : SaveReportMetaAbort(i) /\ UNCHANGED appVars
    \/ \E i \in 1..Len(saves) : SaveReportReportAbort(i) /\ UNCHANGED appVars
    \/ \E i \in 1..Len(clears) : ClearAbort(i) /\ UNCHANGED appVars

SpecFailure == Init /\ [][NextFailure]_vars

\* the call has a transaction that is still to complete or fail
Live(owner) == \E k \in 1..Len(txq) : txq[k].owner = owner

\* C21: every call of saveEvidence, updateEvidence, saveReport,
\* getAllReportsIndexed and clearEvidenceAndReports settles: once its
\* transaction is over (completed, failed or aborted) the promise is resolved
\* or rejected, never left pending.
C21_EveryCallSettles ==
    /\ \A i \in 1..Len(evs) :
          ~Live(<<"saveEvidence", i>>) => evs[i].pc \in {"resolved", "rejected"}
    /\ \A i \in 1..Len(upds) :
          ~Live(<<"updateEvidence", i>>) => upds[i].pc \in {"resolved", "rejected"}
    /\ \A i \in 1..Len(saves) :
          ~Live(<<"saveReport", i>>) =>
              saves[i].pc \in {"resolved", "rejectedGet", "rejectedMeta", "rejectedReport"}
    /\ \A i \in 1..Len(gets) :
          ~Live(<<"getAll", i>>) => gets[i].pc \in {"resolved", "rejected"}
    /\ \A i \in 1..Len(clears) :
          ~Live(<<"clear", i>>) => clears[i].pc \in {"resolved", "rejected"}

----------------------------------------------------------------------------
(* A bulk clear that runs between the two transactions of a saveReport *)

\* the bulk clear committed after call i's index transaction committed and
\* before its report was written, and both calls have completed
ClearedMidSave(i) ==
    /\ saves[i].pc = "resolved"
    /\ saves[i].resolvedEpoch > saves[i].epoch

\* C24: when a bulk clear runs between the index commit and the report write
\* of a saveReport, then once both calls have completed the store holds no
\* report of that call: no report whose id is absent from order.
C24_ClearMidSaveLeavesNoReport ==
    \A i \in 1..Len(saves) :
        ClearedMidSave(i) => saves[i].id \notin DOMAIN reportsStore

----------------------------------------------------------------------------
(* The shape of the index record *)

\* C25: in every state of the store the index record, when it exists, has
\* lastChapterIndex equal to the length of order, and order holds no id
\* twice.
C25_IndexWellFormed ==
    "reports_index" \in DOMAIN metaStore =>
        LET meta == metaStore["reports_index"]
        IN  /\ meta.lastChapterIndex = Len(meta.order)
            /\ \A j, k \in 1..Len(meta.order) : j # k => meta.order[j] # meta.order[k]

\* two saveReport calls were in flight together and both are in the index
C25_Witness ==
    /\ "reports_index" \in DOMAIN metaStore
    /\ Len(metaStore["reports_index"].order) = 2
    /\ \E i, j \in 1..Len(saves) :
          i # j /\ saves[i].pc = "reportQueued" /\ saves[j].pc = "reportQueued"

----------------------------------------------------------------------------
(* The order of the list that getAllReportsIndexed returns *)

\* the place of an id in the index order
PositionIn(order, id) == CHOOSE p \in 1..Len(order) : order[p] = id

\* C26: the reports returned by a resolved getAllReportsIndexed are in the
\* order of reports_index.order as the read found it, hold no report twice
\* and have strictly increasing chapterIndex, whatever saveReport calls,
\* failed report writes and bulk clears came before or ran beside the read.
C26_ListInIndexOrder ==
    \A i \in 1..Len(gets) :
        gets[i].pc = "resolved" =>
            LET order == ReadIndex(gets[i].snapshot[1]).order
                reports == gets[i].reports
            IN  /\ \A k \in 1..Len(reports) : reports[k].id \in Range(order)
                /\ \A k, l \in 1..Len(reports) :
                      k < l =>
                          /\ reports[k].id # reports[l].id
                          /\ PositionIn(order, reports[k].id) < PositionIn(order, reports[l].id)
                          /\ reports[k].chapterIndex < reports[l].chapterIndex

\* a read returned two reports
C26_Witness ==
    \E i \in 1..Len(gets) : gets[i].pc = "resolved" /\ Len(gets[i].reports) = 2

----------------------------------------------------------------------------
(* How often a key is counted *)

\* C27: a de-duplication key is counted at most once per pass, so its count
\* is the number of passes that produced it: between 1 and 3, never more
\* than the passes run so far.
C27_CountedOncePerPass ==
    \A key \in FoundKeys :
        /\ CountOf(allFoundContradictions, key) >= 1
        /\ CountOf(allFoundContradictions, key) <= engPass
        /\ CountOf(allFoundContradictions, key) <= PASSES

----------------------------------------------------------------------------
(* The rules that do not depend on the order of the input *)

OrderFreeTypes == {"metadata_mismatch", "omission"}

\* C28: every metadata_mismatch and every omission contradiction that
\* runContradictionAnalysis returns is labelled 'Verified (3/3)', for every
\* input and every outcome of the shuffles.
C28_OrderFreeRulesVerified ==
    engPc = "done" =>
        \A k \in 1..Len(finalContradictions) :
            finalContradictions[k].contradiction.type \in OrderFreeTypes =>
                finalContradictions[k].verification = "Verified (3/3)"

\* a run that returns a metadata_mismatch pushed twice in each pass, and an
\* omission, from a scope of two items
C28_Witness ==
    /\ engPc = "done"
    /\ Len(engEvidence) = 2
    /\ \E k \in 1..Len(finalContradictions) :
          /\ finalContradictions[k].contradiction.type = "metadata_mismatch"
          /\ CountOf(allFoundContradictions, finalContradictions[k].key) = 6
    /\ \E k \in 1..Len(finalContradictions) :
          finalContradictions[k].contradiction.type = "omission"

----------------------------------------------------------------------------
(* A pass that throws *)

\* analyzeContradictionsOnce throws inside the loop: runContradictionAnalysis
\* has no try/catch, so the exception leaves the function, the promise
\* rejects, and the counting and labelling after the loop never run
EnginePassThrows ==
    /\ engPc = "passes"
    /\ engPass < PASSES
    /\ engPc' = "failed"
    /\ UNCHANGED <<storeVars, engReports, engEvidence, engPass, allFoundContradictions,
                   finalContradictions>>

NextEngineThrow ==
    \/ \E fr \in ShuffleOutcomes(Len(engReports)), fe \in ShuffleOutcomes(Len(engEvidence)) :
          EnginePass(fr, fe) /\ UNCHANGED appVars
    \/ EnginePassThrows /\ UNCHANGED appVars
    \/ EngineReduce /\ UNCHANGED appVars

SpecEngineThrow == InitEngine /\ [][NextEngineThrow]_vars

\* C29: the reduction starts only after all three passes have completed and
\* counts what exactly three passes produced; no result is labelled from
\* fewer than three passes, and when a pass fails the call fails and returns
\* no partial result.
C29_ReducedAfterThreePasses ==
    /\ engPc = "done" =>
          /\ engPass = 3
          /\ Len(allFoundContradictions)
                = 3 * Len(analyzeContradictionsOnce(engReports, engEvidence))
          /\ finalContradictions = Reduce(allFoundContradictions)
    /\ engPc # "done" => finalContradictions = <<>>

\* a run that returned labelled contradictions after its third pass
C29_Witness ==
    /\ engPc = "done"
    /\ engPass = 3
    /\ Len(finalContradictions) >= 2

----------------------------------------------------------------------------
(* The upload flow of the App: handleFileUpload, the two action buttons,   *)
(* Clear Case                                                               *)

MaxUpload == 1
MaxOcr == 1
MaxAppAnalysis == 2

\* What extractPdfText finds in a file: no usable text (a file that is not a
\* PDF, or a PDF whose text layer has fewer than 100 characters) or a text.
TextLayers == {NoText} \cup Texts

\* const isScanned = textContent.trim().length < 100
IsScanned(textContent) == ~textContent.defined

ActionRequest(u) == [type |-> "action_request", upload |-> u]

\* the buttons of upload u are on the screen: ActionRequestDisplay renders
\* them, without a disabled attribute, for as long as the item is in chatItems
ButtonsShown(u) ==
    \E k \in 1..Len(chatItems) :
        chatItems[k].type = "action_request" /\ chatItems[k].upload = u

\* the Clear Case dialog covers the window: no other control can be pressed
NoDialog == ~isClearModalOpen

\* the evidence object that saveEvidence resolved with, held by the closures
UploadEvidence(u) == evs[uploads[u].ev].evidence

OcrMessage(o, content) ==
    [type |-> "message", sender |-> "assistant", content |-> content, id |-> <<"ocr", o>>]

\* updateMessageContent(id, content)
UpdateMessageContent(items, id, content) ==
    [k \in 1..Len(items) |->
        IF items[k].type = "message" /\ "id" \in DOMAIN items[k] /\ items[k].id = id
        THEN [items[k] EXCEPT !.content = content]
        ELSE items[k]]

\* handleFileUpload(file) up to await saveEvidence(file, ...); the attach
\* button is disabled while isLoading
HandleFileUpload(name, content, layer) ==
    /\ ~isLoading
    /\ NoDialog
    /\ Len(uploads) < MaxUpload
    /\ isLoading' = TRUE
    /\ isProcessingFile' = TRUE
    /\ processingStatus' = "Hashing file..."
    /\ chatItems' = chatItems \o
           << [type |-> "message", sender |-> "user", content |-> "File for analysis"],
              Message("Got the file") >>
    /\ uploads' = Append(uploads, [pc |-> "saving", ev |-> Len(evs) + 1, layer |-> layer])
    /\ SaveEvidenceUpTo(MaxUpload, name, content)
    /\ UNCHANGED <<analyses, ocrs, isClearModalOpen, clearRequests>>

\* saveEvidence resolved and the file has no usable text: the action request
UploadOffersActions(u) ==
    /\ uploads[u].pc = "saving"
    /\ evs[uploads[u].ev].pc = "resolved"
    /\ IsScanned(uploads[u].layer)
    /\ chatItems' = Append(chatItems, ActionRequest(u))
    /\ LoadingCleared
    /\ uploads' = [uploads EXCEPT ![u].pc = "offered"]
    /\ UNCHANGED <<storeVars, engineVars, analyses, ocrs, isClearModalOpen, clearRequests>>

\* saveEvidence resolved and the file has a text layer:
\* await runAnalysisAndSaveReport({ ...evidence, ocrText: textContent })
UploadAnalyses(u) ==
    /\ uploads[u].pc = "saving"
    /\ evs[uploads[u].ev].pc = "resolved"
    /\ ~IsScanned(uploads[u].layer)
    /\ AnalysisStartUpTo(MaxAppAnalysis, UpdatedEvidence(UploadEvidence(u), uploads[u].layer))
    /\ uploads' = [uploads EXCEPT ![u].pc = "analysing"]
    /\ UNCHANGED <<chatItems, ocrs, isClearModalOpen, clearRequests>>

\* saveEvidence rejected: the outer catch
UploadFailed(u) ==
    /\ uploads[u].pc = "saving"
    /\ evs[uploads[u].ev].pc = "rejected"
    /\ chatItems' = Append(chatItems, Message("Failed to save or analyze the evidence."))
    /\ LoadingCleared
    /\ uploads' = [uploads EXCEPT ![u].pc = "failed"]
    /\ UNCHANGED <<storeVars, engineVars, analyses, ocrs, isClearModalOpen, clearRequests>>

\* 'Run Local OCR & Analyze': triggerOcr up to await runOcr(file)
PressOcr(u) ==
    /\ ButtonsShown(u)
    /\ NoDialog
    /\ Len(ocrs) < MaxOcr
    /\ ocrs' = Append(ocrs, [pc |-> "ocr", upload |-> u, upd |-> 0])
    /\ chatItems' = Append(chatItems, OcrMessage(Len(ocrs) + 1, "Running local OCR..."))
    /\ processingStatus' = "Running local OCR..."
    /\ UNCHANGED <<storeVars, engineVars, isLoading, isProcessingFile, analyses, uploads,
                   isClearModalOpen, clearRequests>>

\* runOcr resolved: await updateEvidence({ ...evidence, ocrText })
OcrDone(o, ocrText) ==
    /\ ocrs[o].pc = "ocr"
    /\ UpdateEvidenceUpTo(MaxOcr, UploadEvidence(ocrs[o].upload), ocrText)
    /\ ocrs' = [ocrs EXCEPT ![o].pc = "updating", ![o].upd = Len(upds) + 1]
    /\ UNCHANGED <<isLoading, isProcessingFile, processingStatus, chatItems, analyses,
                   uploads, isClearModalOpen, clearRequests>>

\* runOcr rejected: the catch of triggerOcr
OcrFailed(o) ==
    /\ ocrs[o].pc = "ocr"
    /\ chatItems' = UpdateMessageContent(chatItems, <<"ocr", o>>, "Local OCR failed.")
    /\ LoadingCleared
    /\ ocrs' = [ocrs EXCEPT ![o].pc = "failed"]
    /\ UNCHANGED <<storeVars, engineVars, analyses, uploads, isClearModalOpen, clearRequests>>

\* updateEvidence resolved: await runAnalysisAndSaveReport(updatedEvidence)
OcrUpdated(o) ==
    /\ ocrs[o].pc = "updating"
    /\ upds[ocrs[o].upd].pc = "resolved"
    /\ chatItems' = UpdateMessageContent(chatItems, <<"ocr", o>>, "Local OCR complete.")
    /\ AnalysisStartUpTo(MaxAppAnalysis, upds[ocrs[o].upd].evidence)
    /\ ocrs' = [ocrs EXCEPT ![o].pc = "analysing"]
    /\ UNCHANGED <<uploads, isClearModalOpen, clearRequests>>

\* updateEvidence rejected: the catch of triggerOcr
OcrUpdateFailed(o) ==
    /\ ocrs[o].pc = "updating"
    /\ upds[ocrs[o].upd].pc = "rejected"
    /\ chatItems' = UpdateMessageContent(chatItems, <<"ocr", o>>, "Local OCR failed.")
    /\ LoadingCleared
    /\ ocrs' = [ocrs EXCEPT ![o].pc = "failed"]
    /\ UNCHANGED <<storeVars, engineVars, analyses, uploads, isClearModalOpen, clearRequests>>

\* 'Analyze as Image Only': () => runAnalysisAndSaveReport(evidence)
PressImageOnly(u) ==
    /\ ButtonsShown(u)
    /\ NoDialog
    /\ AnalysisStartUpTo(MaxAppAnalysis, UploadEvidence(u))
    /\ UNCHANGED <<chatItems, uploadVars>>

\* 'Clear Case': setIsClearModalOpen(true); the button is disabled while isLoading
OpenClearModal ==
    /\ ~isLoading
    /\ NoDialog
    /\ Len(clearRequests) < MaxClear
    /\ isClearModalOpen' = TRUE
    /\ UNCHANGED <<storeVars, engineVars, isLoading, isProcessingFile, processingStatus,
                   chatItems, analyses, uploads, ocrs, clearRequests>>

\* 'Cancel': onClose
CancelClear ==
    /\ isClearModalOpen
    /\ isClearModalOpen' = FALSE
    /\ UNCHANGED <<storeVars, engineVars, isLoading, isProcessingFile, processingStatus,
                   chatItems, analyses, uploads, ocrs, clearRequests>>

\* 'Confirm & Clear': handleClearData up to await clearEvidenceAndReports; onClose
ConfirmClear ==
    /\ isClearModalOpen
    /\ isClearModalOpen' = FALSE
    /\ clearRequests' = Append(clearRequests,
                               [pc |-> "clearing", clear |-> Len(clears) + 1, get |-> 0])
    /\ ClearCall
    /\ UNCHANGED <<isLoading, isProcessingFile, processingStatus, chatItems, analyses,
                   uploads, ocrs>>

\* the clear resolved: setChatItems([]); loadInitialData up to
\* await getAllReportsIndexed()
ClearDone(c) ==
    /\ clearRequests[c].pc = "clearing"
    /\ clears[clearRequests[c].clear].pc = "resolved"
    /\ chatItems' = <<>>
    /\ isLoading' = TRUE
    /\ clearRequests' = [clearRequests EXCEPT ![c].pc = "loading", ![c].get = Len(gets) + 1]
    /\ GetAllCall
    /\ UNCHANGED <<isProcessingFile, processingStatus, analyses, uploads, ocrs,
                   isClearModalOpen>>

\* the report items loadInitialData builds: one for each report that has a
\* returned evidence among its references
LoadedItems(reports, evidence) ==
    LET shown == SelectSeq(reports, LAMBDA r :
                     \E k \in 1..Len(r.evidenceRefs) :
                         r.evidenceRefs[k] \in {e.id : e \in evidence})
    IN  [k \in 1..Len(shown) |-> [type |-> "report", id |-> shown[k].id]]

\* loadInitialData after getAllReportsIndexed resolved; finally
LoadDone(c) ==
    /\ clearRequests[c].pc = "loading"
    /\ gets[clearRequests[c].get].pc = "resolved"
    /\ LET g == gets[clearRequests[c].get]
       IN  chatItems' = IF Len(g.reports) = 0
                        THEN << Message("Hello and welcome") >>
                        ELSE Append(LoadedItems(g.reports, g.evidence),
                                    Message("Case context rebuilt"))
    /\ isLoading' = FALSE
    /\ clearRequests' = [clearRequests EXCEPT ![c].pc = "ended"]
    /\ UNCHANGED <<storeVars, engineVars, isProcessingFile, processingStatus, analyses,
                   uploads, ocrs, isClearModalOpen>>

\* loadInitialData after getAllReportsIndexed rejected: catch, finally
LoadFailed(c) ==
    /\ clearRequests[c].pc = "loading"
    /\ gets[clearRequests[c].get].pc = "rejected"
    /\ chatItems' = Append(chatItems, Message("Could not load saved data."))
    /\ isLoading' = FALSE
    /\ clearRequests' = [clearRequests EXCEPT ![c].pc = "ended"]
    /\ UNCHANGED <<storeVars, engineVars, isProcessingFile, processingStatus, analyses,
                   uploads, ocrs, isClearModalOpen>>

\* the answers of the three oracle invocations: one gives a report, none does
AppResponseLists ==
    { <<"report", "failed", "unparsable">>,
      <<"failed", "failed", "failed">> }

\* the files the user uploads
AppFiles == FileNames \X {"bytesA"} \X TextLayers

NextApp ==
    \/ \E file \in AppFiles : HandleFileUpload(file[1], file[2], file[3])
    \/ \E u \in 1..Len(uploads) : UploadOffersActions(u)
    \/ \E u \in 1..Len(uploads) : UploadAnalyses(u)
    \/ \E u \in 1..Len(uploads) : UploadFailed(u)
    \/ \E u \in 1..Len(uploads) : PressOcr(u)
    \/ \E o \in 1..Len(ocrs), ocrText \in Texts : OcrDone(o, ocrText)
    \/ \E o \in 1..Len(ocrs) : OcrFailed(o)
    \/ \E o \in 1..Len(ocrs) : OcrUpdated(o)
    \/ \E o \in 1..Len(ocrs) : OcrUpdateFailed(o)
    \/ \E u \in 1..Len(uploads) : PressImageOnly(u)
    \/ \E i \in 1..Len(analyses), responses \in AppResponseLists :
          AnalysisInconclusive(i, responses) /\ UNCHANGED uploadVars
    \/ \E i \in 1..Len(analyses), responses \in AppResponseLists :
          AnalysisSaveReport(i, responses) /\ UNCHANGED uploadVars
    \/ \E i \in 1..Len(analyses) : AnalysisSaved(i) /\ UNCHANGED uploadVars
    \/ \E i \in 1..Len(analyses) : AnalysisSaveFailed(i) /\ UNCHANGED uploadVars
    \/ OpenClearModal
    \/ CancelClear
    \/ ConfirmClear
    \/ \E c \in 1..Len(clearRequests) : ClearDone(c)
    \/ \E c \in 1..Len(clearRequests) : LoadDone(c)
    \/ \E c \in 1..Len(clearRequests) : LoadFailed(c)
    \/ \E i \in 1..Len(evs) : SaveEvidenceComplete(i) /\ UNCHANGED appVars
    \/ \E i \in 1..Len(evs) : SaveEvidenceError(i) /\ UNCHANGED appVars
    \/ \E i \in 1..Len(upds) : UpdateEvidenceComplete(i) /\ UNCHANGED appVars
    \/ \E i \in 1..Len(upds) : UpdateEvidenceError(i) /\ UNCHANGED appVars
    \/ \E i \in 1..Len(saves) : SaveReportGetSuccess(i) /\ UNCHANGED appVars
    \/ \E i \in 1..Len(saves) : SaveReportGetError(i) /\ UNCHANGED appVars
    \/ \E i \in 1..Len(saves) : SaveReportMetaComplete(i) /\ UNCHANGED appVars
    \/ \E i \in 1..Len(saves) : SaveReportMetaError(i) /\ UNCHANGED appVars
    \/ \E i \in 1..Len(saves) : SaveReportReportComplete(i) /\ UNCHANGED appVars
    \/ \E i \in 1..Len(saves) : SaveReportReportError(i) /\ UNCHANGED appVars
    \/ \E i \in 1..Len(gets) : GetAllMetaSuccess(i) /\ UNCHANGED appVars
    \/ \E i \in 1..Len(gets) : GetAllReportsSuccess(i) /\ UNCHANGED appVars
    \/ \E i \in 1..Len(gets) : GetAllEvidenceSuccess(i) /\ UNCHANGED appVars
    \/ \E i \in 1..Len(gets) : GetAllError(i) /\ UNCHANGED appVars
    \/ \E i \in 1..Len(clears) : ClearComplete(i) /\ UNCHANGED appVars
    \/ \E i \in 1..Len(clears) : ClearError(i) /\ UNCHANGED appVars

SpecApp == Init /\ [][NextApp]_vars

----------------------------------------------------------------------------
(* Properties of the upload flow *)

\* the saveReport and clearEvidenceAndReports calls that have not settled
LedgerMutationsInFlight ==
    Cardinality({i \in 1..Len(saves) : SavePending(i)})
        + Cardinality({i \in 1..Len(clears) : clears[i].pc = "queued"})

\* C22: the App never has two ledger-mutating calls (saveReport,
\* clearEvidenceAndReports) in flight together, whatever the user does with
\* the upload control, the two action buttons and Clear Case.
C22_OneLedgerMutationInFlight == LedgerMutationsInFlight <= 1

\* C23: a record enters the evidence store only when a saveEvidence call
\* commits, and the text of a stored record is written at most once: no
\* updateEvidence commits a record whose id is not in the store, and none
\* commits on a record that already has a text.
C23_EvidenceLifecycle ==
    [][\A id \in DOMAIN evidenceStore' :
          /\ id \notin DOMAIN evidenceStore =>
                \E i \in 1..Len(evs) :
                    /\ evs[i].evidence.id = id
                    /\ evs[i].pc = "queued"
                    /\ evs'[i].pc = "resolved"
          /\ (id \in DOMAIN evidenceStore /\ evidenceStore[id].ocrText.defined) =>
                ~ \E u \in 1..Len(upds) :
                      /\ upds[u].evidence.id = id
                      /\ upds[u].pc = "queued"
                      /\ upds'[u].pc = "resolved"]_vars

\* the analysis used an extracted text and its report was saved
SavedFromText(i) ==
    /\ analyses[i].pc = "ended"
    /\ analyses[i].save # 0
    /\ saves[analyses[i].save].pc = "resolved"
    /\ analyses[i].evidence.ocrText.defined

\* C30: when the upload flow has saved a report from an analysis that used
\* an extracted text (from the PDF text layer or from OCR), the stored
\* evidence record carries that text in ocrText.
C30_StoredTextIsAnalysedText ==
    \A i \in 1..Len(analyses) :
        (SavedFromText(i) /\ analyses[i].evidence.id \in DOMAIN evidenceStore) =>
            evidenceStore[analyses[i].evidence.id].ocrText = analyses[i].evidence.ocrText

====
